---- MODULE Spec2Model ----
(***************************************************************************)
(* Model of the Alert Service relay: src/models.py (EmergencyEvent, Alert, *)
(* ClientAlert), src/mqtt_handler.py (MQTTAlertHandler) and src/main.py    *)
(* (AlertService.process_emergency_event).                                 *)
(*                                                                         *)
(* Text (event_type, description, message) is a sequence of one-character  *)
(* strings so that str.upper() and f-string concatenation are computed;    *)
(* topics and enum values are TLA+ strings.                                *)
(***************************************************************************)
EXTENDS Integers, Sequences, FiniteSets, TLC

VARIABLES
    alert_id_counter,   \* MQTTAlertHandler.alert_id_counter
    message_callback,   \* MQTTAlertHandler.message_callback
    simulator_client,   \* paho client "alert_service_receiver": [state, loop, subscriptions]
    client_publisher,   \* paho client "alert_service_publisher": [state, loop, subscriptions]
    published,          \* history: every call of client_publisher.publish, in order
    built,              \* history: every Alert returned by _create_alert_from_event
    hook_calls,         \* history: every Event handed to message_callback
    escaped,            \* history: every <<operation, exception>> that reached a caller
    ops,                \* number of handler operations run so far (bounded)
    pc,                 \* concurrent builds: position of each thread
    reg,                \* concurrent builds: value each thread loaded from the counter
    ret,                \* concurrent builds: id each thread returned (0 = not yet)
    svc,                \* main thread: the AlertService and the position of its control flow
    net,                \* network thread of simulator_client: the _on_message call in flight
    stopper,            \* a thread inside MQTTAlertHandler.stop(): its position
    caplog              \* the WARNING records of the module's logger, when they are captured

vars == <<alert_id_counter, message_callback, simulator_client, client_publisher,
          published, built, hook_calls, escaped, ops, pc, reg, ret, svc, net, stopper,
          caplog>>

-----------------------------------------------------------------------------
(* Bounds of the model *)

MaxOps == 2

NThreads == 3

MaxSignals == 2

MaxCallbacks == 1

MaxMessages == 3

MaxWarnings == 2

-----------------------------------------------------------------------------
(* Text *)

LowerChars == <<"a","b","c","d","e","f","g","h","i","j","k","l","m",
                "n","o","p","q","r","s","t","u","v","w","x","y","z">>

UpperChars == <<"A","B","C","D","E","F","G","H","I","J","K","L","M",
                "N","O","P","Q","R","S","T","U","V","W","X","Y","Z">>

\* str.upper() on one character
UpperChar(c) ==
    IF \E i \in 1..Len(LowerChars) : LowerChars[i] = c
    THEN UpperChars[CHOOSE i \in 1..Len(LowerChars) : LowerChars[i] = c]
    ELSE c

\* a key lookup that leaves the text as it was received
UpperIdentity(s) == s

\* str.upper()
Upper(s) == [i \in 1..Len(s) |-> UpperChar(s[i])]

T_FIRE == <<"F","I","R","E">>

T_fire_alert == <<"f","i","r","e","_","a","l","e","r","t">>

T_FIRE_ALERT == <<"F","I","R","E","_","A","L","E","R","T">>

T_SECURITY == <<"S","E","C","U","R","I","T","Y">>

T_MEDICAL == <<"M","E","D","I","C","A","L">>

T_EVACUATION == <<"E","V","A","C","U","A","T","I","O","N">>

T_fire == <<"f","i","r","e">>

T_Fire == <<"F","i","r","e">>

T_Fire_Alert == <<"F","i","r","e","_","A","l","e","r","t">>

T_security == <<"s","e","c","u","r","i","t","y">>

T_medical == <<"m","e","d","i","c","a","l">>

T_Medical == <<"M","e","d","i","c","a","l">>

T_evacuation == <<"e","v","a","c","u","a","t","i","o","n">>

T_UNKNOWN_TYPE == <<"U","N","K","N","O","W","N","_","T","Y","P","E">>

T_WEATHER == <<"W","E","A","T","H","E","R">>

T_weather == <<"w","e","a","t","h","e","r">>

T_FIREALERT == <<"F","I","R","E","A","L","E","R","T">>

T_FIRE_padded == <<"F","I","R","E"," ">>

T_FireInB == <<"F","i","r","e"," ","i","n"," ","B">>

T_GateShut == <<"G","a","t","e"," ","s","h","u","t">>

T_Smoke == <<"S","m","o","k","e">>

T_EmergencyDetected == <<"E","m","e","r","g","e","n","c","y"," ",
                         "d","e","t","e","c","t","e","d">>

-----------------------------------------------------------------------------
(* models.py *)

\* class AlertType(Enum): member -> value
AlertTypeValue(t) ==
    CASE t = "AlertType.FIRE" -> "FIRE"
      [] t = "AlertType.SECURITY" -> "SECURITY"
      [] t = "AlertType.MEDICAL" -> "MEDICAL"
      [] t = "AlertType.EVACUATION" -> "EVACUATION"

\* the decimal literals the model reads
IntLiterals ==
    {<<"101", 101>>, <<"102", 102>>, <<"1883", 1883>>, <<"1885", 1885>>, <<"1886", 1886>>}

\* int(text)
ParseInt(text) ==
    IF \E l \in IntLiterals : l[1] = text
    THEN [exc |-> "none", value |-> (CHOOSE l \in IntLiterals : l[1] = text)[2]]
    ELSE [exc |-> "ValueError", value |-> 0]

\* items of a JSON list: a number, or a string
JInt(n) == [type |-> "int", int |-> n, str |-> ""]

JStr(text) == [type |-> "str", int |-> 0, str |-> text]

\* JSON values found under "disabled_tiles": a list of items, a string, null
TilesList(items) == [kind |-> "list", items |-> items]

TilesStr == [kind |-> "str", items |-> <<>>]

TilesNull == [kind |-> "null", items |-> <<>>]

\* Optional[dict]: None, or a dict holding some of the keys
\* "description", "disabled_tiles", "location"
NoneDict == [none |-> TRUE, keys |-> {}, description |-> <<>>, disabled_tiles |-> TilesNull]

Dict(keys, description, tiles) ==
    [none |-> FALSE, keys |-> keys,
     description |-> IF "description" \in keys THEN description ELSE <<>>,
     disabled_tiles |-> IF "disabled_tiles" \in keys THEN tiles ELSE TilesNull]

EmptyDict == Dict({}, <<>>, TilesNull)

\* Python truthiness of an Optional[dict]
Truthy(d) == ~d.none /\ d.keys # {}

\* an accessor that merges the two dicts, the keys of metadata winning
GetDetailsMerged(event) ==
    IF event.metadata.none /\ event.details.none THEN EmptyDict
    ELSE Dict(event.metadata.keys \cup event.details.keys,
              IF "description" \in event.metadata.keys
              THEN event.metadata.description ELSE event.details.description,
              IF "disabled_tiles" \in event.metadata.keys
              THEN event.metadata.disabled_tiles ELSE event.details.disabled_tiles)

\* EmergencyEvent.get_details: self.metadata or self.details or {}
get_details(event) ==
    IF Truthy(event.metadata) THEN event.metadata
    ELSE IF Truthy(event.details) THEN event.details
    ELSE EmptyDict

\* datetime values: a wall-clock reading, naive or UTC
ParseDatetime(s) ==
    CASE s = "2025-01-01T10:00:00" -> [wall |-> "2025-01-01T10:00:00", tz |-> "naive"]
      [] s = "2025-01-01T10:00:00Z" -> [wall |-> "2025-01-01T10:00:00", tz |-> "utc"]

ValidDatetime(s) == s \in {"2025-01-01T10:00:00", "2025-01-01T10:00:00Z"}

\* datetime.isoformat()
IsoFormat(dt) == IF dt.tz = "utc" THEN dt.wall \o "+00:00" ELSE dt.wall

\* pydantic validation of one item against int: an int is kept, a string that is a
\* decimal literal is converted, any other string is rejected
CoerceInt(item) ==
    IF item.type = "int" THEN [exc |-> "none", value |-> item.int]
    ELSE [exc |-> IF ParseInt(item.str).exc = "none" THEN "none" ELSE "ValidationError",
          value |-> ParseInt(item.str).value]

\* pydantic validation of Alert.disabled_tiles: list[int]
ValidListInt(v) ==
    /\ v.kind = "list"
    /\ \A i \in 1..Len(v.items) : CoerceInt(v.items[i]).exc = "none"

\* the list[int] value pydantic stores for a list that validates
CoerceListInt(v) == [i \in 1..Len(v.items) |-> CoerceInt(v.items[i]).value]

-----------------------------------------------------------------------------
(* Inbound messages: the raw MQTT payload handed to _on_message *)

RequiredFields == {"event_id", "event_type", "timestamp", "severity"}

Severities == {"CRITICAL"}

\* event_type and metadata of the payloads sent: a fire with description and tiles,
\* and a fire alert whose "disabled_tiles" is a string
Bodies ==
    {[event_type |-> T_FIRE,
      metadata |-> Dict({"description", "disabled_tiles"}, T_FireInB, TilesList(<<JInt(101), JInt(102)>>))],
     [event_type |-> T_fire_alert, metadata |-> Dict({"disabled_tiles"}, <<>>, TilesStr)]}

Body(b, f, ts, sv) ==
    [kind |-> "object", fields |-> f, event_type |-> b.event_type, timestamp |-> ts,
     severity |-> sv, metadata |-> b.metadata, details |-> NoneDict]

\* JSON objects: every body with all required fields and a timestamp that parses;
\* the fire with one required field missing; the fire with a timestamp that does not parse
ObjectMessages ==
    {Body(b, RequiredFields, "2025-01-01T10:00:00Z", sv) : b \in Bodies, sv \in Severities}
    \cup {Body(b, RequiredFields \ {k}, "2025-01-01T10:00:00Z", sv) :
            b \in {x \in Bodies : x.event_type = T_FIRE}, k \in RequiredFields,
            sv \in Severities}
    \cup {Body(b, RequiredFields, "not-a-date", sv) :
            b \in {x \in Bodies : x.event_type = T_FIRE}, sv \in Severities}

\* bytes that are not UTF-8, text that is not JSON, JSON that is not an object
BrokenMessages ==
    {[kind |-> k, fields |-> {}, event_type |-> <<>>, timestamp |-> "",
      severity |-> "", metadata |-> NoneDict, details |-> NoneDict] :
        k \in {"notutf8", "notjson", "nonobject"}}

Messages == ObjectMessages \cup BrokenMessages

\* validation that accepts a payload with a required field missing
ValidEventIgnoringMissing(m) == ValidDatetime(m.timestamp)

\* pydantic validation of EmergencyEvent(**payload)
ValidEvent(m) == RequiredFields \subseteq m.fields /\ ValidDatetime(m.timestamp)

\* the exception raised by lines 81-85 of _on_message, "none" when an Event is parsed
DecodeError(m) ==
    CASE m.kind = "notutf8" -> "UnicodeDecodeError"
      [] m.kind = "notjson" -> "JSONDecodeError"
      [] m.kind = "nonobject" -> "AttributeError"
      [] m.kind = "object" /\ ~ValidEvent(m) -> "ValidationError"
      [] OTHER -> "none"

\* EmergencyEvent(**payload) for a payload that validates
ParseEvent(m) ==
    [event_id |-> "evt", event_type |-> m.event_type,
     timestamp |-> ParseDatetime(m.timestamp), severity |-> m.severity,
     metadata |-> m.metadata, details |-> m.details]

Events == {ParseEvent(m) : m \in {x \in ObjectMessages : ValidEvent(x)}}

-----------------------------------------------------------------------------
(* mqtt_handler.py: configuration set by __init__ *)

simulator_topic == "stadium/events/alerts"

client_topic_prefix == "alerts/client"

broadcast_topic == "alerts/broadcast"

ClientIds == {"c42"}

\* what client_publisher.publish(...) can do: return rc 0, return an error rc, raise
PublishOutcomes == {"MQTT_ERR_SUCCESS", "MQTT_ERR_NO_CONN", "raises"}

-----------------------------------------------------------------------------
(* mqtt_handler.py: _create_alert_from_event *)

\* alert_type_map.get(key, AlertType.SECURITY)
alert_type_map(key) ==
    CASE key = T_FIRE -> "AlertType.FIRE"
      [] key = T_FIRE_ALERT -> "AlertType.FIRE"
      [] key = T_SECURITY -> "AlertType.SECURITY"
      [] key = T_MEDICAL -> "AlertType.MEDICAL"
      [] key = T_EVACUATION -> "AlertType.EVACUATION"
      [] OTHER -> "AlertType.SECURITY"

\* an Alert whose message is built from the uppercased event_type
NewAlertUppercasedMessage(id, event) ==
    [exc |-> "none",
     alert |-> [id |-> id,
                type |-> alert_type_map(Upper(event.event_type)),
                disabled_tiles |-> <<>>,
                message |-> Upper(event.event_type) \o <<":", " ">> \o T_EmergencyDetected,
                timestamp |-> event.timestamp,
                severity |-> event.severity]]

\* the Alert(...) constructor call of lines 118-125, given the id read at line 119
NewAlert(id, event) ==
    LET details == get_details(event)
        tiles == IF "disabled_tiles" \in details.keys
                 THEN details.disabled_tiles ELSE TilesList(<<>>)
        description == IF "description" \in details.keys
                       THEN details.description ELSE T_EmergencyDetected
    IN  [exc |-> IF ValidListInt(tiles) THEN "none" ELSE "ValidationError",
         alert |-> [id |-> id,
                    type |-> alert_type_map(Upper(event.event_type)),
                    disabled_tiles |-> CoerceListInt(tiles),
                    message |-> event.event_type \o <<":", " ">> \o description,
                    timestamp |-> event.timestamp,
                    severity |-> event.severity]]

\* a non-overlapping call: the counter after line 102, the Alert returned (if any)
\* and the exception raised (if any)
create_alert_from_event(counter, event) ==
    LET r == NewAlert(counter + 1, event)
    IN  [counter |-> counter + 1, exc |-> r.exc,
         alerts |-> IF r.exc = "none" THEN <<r.alert>> ELSE <<>>]

-----------------------------------------------------------------------------
(* mqtt_handler.py: broadcast_alert, send_alert_to_client *)

\* the ClientAlert(...) constructor call of lines 129-136 and 148-155
Project(alert) ==
    [alert_id |-> alert.id,
     alert_type |-> AlertTypeValue(alert.type),
     message |-> alert.message,
     timestamp |-> IsoFormat(alert.timestamp),
     severity |-> alert.severity,
     affected_areas |-> alert.disabled_tiles]

\* client_alert.model_dump_json(): the JSON text of the object
ModelDumpJson(client_alert) == [json |-> "object", members |-> client_alert]

\* one call of client_publisher.publish(topic, payload, qos=1) and what it did
PublishCall(topic, payload, outcome) ==
    [topic |-> topic, payload |-> payload, qos |-> 1, outcome |-> outcome]

\* the log line written after a publish that returned
PublishLog(outcome) == IF outcome = "MQTT_ERR_SUCCESS" THEN "info" ELSE "error"

\* broadcast_alert publishing a second time when the first publish returned an error
BroadcastRetriesOnError(alert, outcome) ==
    LET call == PublishCall(broadcast_topic, ModelDumpJson(Project(alert)), outcome)
    IN  [calls |-> IF outcome \in {"MQTT_ERR_SUCCESS", "raises"}
                   THEN <<call>> ELSE <<call, call>>,
         exc |-> IF outcome = "raises" THEN "ValueError" ELSE "none",
         log |-> IF outcome = "raises" THEN "none" ELSE PublishLog(outcome)]

broadcast_alert(alert, outcome) ==
    [calls |-> <<PublishCall(broadcast_topic, ModelDumpJson(Project(alert)), outcome)>>,
     exc |-> IF outcome = "raises" THEN "ValueError" ELSE "none",
     log |-> IF outcome = "raises" THEN "none" ELSE PublishLog(outcome)]

\* send_alert_to_client building the topic without the "/" separator
SendWithoutSeparator(client_id, alert, outcome) ==
    [calls |-> <<PublishCall(client_topic_prefix \o client_id,
                             ModelDumpJson(Project(alert)), outcome)>>,
     exc |-> IF outcome = "raises" THEN "ValueError" ELSE "none",
     log |-> IF outcome = "raises" THEN "none" ELSE PublishLog(outcome)]

send_alert_to_client(client_id, alert, outcome) ==
    [calls |-> <<PublishCall(client_topic_prefix \o "/" \o client_id,
                             ModelDumpJson(Project(alert)), outcome)>>,
     exc |-> IF outcome = "raises" THEN "ValueError" ELSE "none",
     log |-> IF outcome = "raises" THEN "none" ELSE PublishLog(outcome)]

-----------------------------------------------------------------------------
(* main.py: AlertService.process_emergency_event, and other hooks a caller may *)
(* install with set_message_callback                                          *)

\* build (line 47) then broadcast (line 50); an exception of either propagates
process_emergency_event(counter, event, outcome) ==
    LET b == create_alert_from_event(counter, event)
        p == broadcast_alert(b.alerts[1], outcome)
    IN  IF b.exc # "none"
        THEN [counter |-> b.counter, exc |-> b.exc, built |-> <<>>,
              calls |-> <<>>, log |-> "none"]
        ELSE [counter |-> b.counter, exc |-> p.exc, built |-> b.alerts,
              calls |-> p.calls, log |-> p.log]

Hooks == {"None", "process_emergency_event", "drop_all", "faulty"}

\* message_callback(event) for each hook that can be installed
RunHook(cb, counter, event, outcome) ==
    CASE cb = "process_emergency_event" -> process_emergency_event(counter, event, outcome)
      [] cb = "drop_all" ->
            [counter |-> counter, exc |-> "none", built |-> <<>>,
             calls |-> <<>>, log |-> "none"]
      [] cb = "faulty" ->
            [counter |-> counter, exc |-> "RuntimeError", built |-> <<>>,
             calls |-> <<>>, log |-> "none"]

-----------------------------------------------------------------------------
(* mqtt_handler.py: _on_message *)

\* lines 92-93: alert = self._create_alert_from_event(event); self.broadcast_alert(alert)
DefaultPolicy(counter, event, outcome) ==
    LET b == create_alert_from_event(counter, event)
        p == broadcast_alert(b.alerts[1], outcome)
    IN  IF b.exc # "none"
        THEN [counter |-> b.counter, exc |-> b.exc, built |-> <<>>,
              calls |-> <<>>, log |-> "none"]
        ELSE [counter |-> b.counter, exc |-> p.exc, built |-> b.alerts,
              calls |-> p.calls, log |-> p.log]

\* lines 88-93 run both branches: the hook, then the default policy as well
DispatchHookThenDefault(counter, cb, event, outcome) ==
    LET h == IF cb # "None" THEN RunHook(cb, counter, event, outcome)
             ELSE [counter |-> counter, exc |-> "none", built |-> <<>>,
                   calls |-> <<>>, log |-> "none"]
        d == DefaultPolicy(h.counter, event, outcome)
    IN  IF h.exc # "none"
        THEN h @@ [hook_calls |-> IF cb # "None" THEN <<event>> ELSE <<>>]
        ELSE [counter |-> d.counter, exc |-> d.exc, built |-> h.built \o d.built,
              calls |-> h.calls \o d.calls, log |-> d.log,
              hook_calls |-> IF cb # "None" THEN <<event>> ELSE <<>>]

\* lines 88-93: if self.message_callback: ... else: ...
Dispatch(counter, cb, event, outcome) ==
    IF cb # "None"
    THEN RunHook(cb, counter, event, outcome) @@ [hook_calls |-> <<event>>]
    ELSE DefaultPolicy(counter, event, outcome) @@ [hook_calls |-> <<>>]

\* the body of the try block, lines 81-93
TryBody(counter, cb, m, outcome) ==
    IF DecodeError(m) # "none"
    THEN [counter |-> counter, exc |-> DecodeError(m), built |-> <<>>,
          calls |-> <<>>, log |-> "none", hook_calls |-> <<>>]
    ELSE Dispatch(counter, cb, ParseEvent(m), outcome)

\* every exception class the model raises derives from Exception
ExceptionClasses ==
    {"JSONDecodeError", "UnicodeDecodeError", "AttributeError", "ValidationError",
     "ValueError", "RuntimeError", "TypeError"}

\* the except clauses catch json.JSONDecodeError only
HandlerCatchesJsonOnly(exc) ==
    CASE exc = "none" -> [exc |-> "none", log |-> "none"]
      [] exc = "JSONDecodeError" -> [exc |-> "none", log |-> "Failed to decode JSON"]
      [] OTHER -> [exc |-> exc, log |-> "none"]

\* lines 95-98: what leaves the try statement, and the error line logged
ExceptClauses(exc) ==
    CASE exc = "none" -> [exc |-> "none", log |-> "none"]
      [] exc = "JSONDecodeError" -> [exc |-> "none", log |-> "Failed to decode JSON"]
      [] exc \in ExceptionClasses -> [exc |-> "none", log |-> "Error processing message"]
      [] OTHER -> [exc |-> exc, log |-> "none"]

on_message(counter, cb, m, outcome) ==
    LET b == TryBody(counter, cb, m, outcome)
        h == ExceptClauses(b.exc)
    IN  [counter |-> b.counter, exc |-> h.exc, built |-> b.built, calls |-> b.calls,
         hook_calls |-> b.hook_calls,
         log |-> IF h.log # "none" THEN h.log ELSE b.log]

-----------------------------------------------------------------------------
(* State after MQTTAlertHandler.__init__ *)

Threads == 1..NThreads

NewClient == [state |-> "Disconnected", loop |-> FALSE, subscriptions |-> {}]

\* what the caller of operation op sees escape from it
Escaped(op, exc) == IF exc = "none" THEN {} ELSE {<<op, exc>>}

\* no AlertService: the handler is used on its own
NoService ==
    [pc |-> "none", running |-> FALSE, registered |-> FALSE, pending |-> "none",
     exc |-> "none", stops |-> 0, signals |-> 0, env |-> <<>>, handler |-> {}]

\* no inbound message is being handled
NetIdle == [pc |-> "idle", event |-> <<>>, decoded |-> 0, consumed |-> 0]

\* nobody is inside stop()
NoStopper == [pc |-> "idle", overlapped |-> FALSE]

\* no handler is attached to the logger: records are written and not kept
NoCapture == [on |-> FALSE, warnings |-> <<>>]

\* a handler that keeps WARNING records is attached, and has kept none yet
EmptyCapture == [on |-> TRUE, warnings |-> <<>>]

InitHandlerWith(cb) ==
    /\ alert_id_counter = 0
    /\ message_callback = cb
    /\ simulator_client = NewClient
    /\ client_publisher = NewClient
    /\ published = <<>>
    /\ built = <<>>
    /\ hook_calls = <<>>
    /\ escaped = {}
    /\ ops = 0
    /\ pc = [t \in Threads |-> "idle"]
    /\ reg = [t \in Threads |-> 0]
    /\ ret = [t \in Threads |-> 0]

InitHandler == InitHandlerWith("None")

Init ==
    /\ InitHandler
    /\ svc = NoService
    /\ net = NetIdle
    /\ stopper = NoStopper
    /\ caplog = NoCapture

threadVars == <<pc, reg, ret>>

procVars == <<svc, net, stopper>>

histVars == <<published, built, hook_calls>>

connVars == <<simulator_client, client_publisher>>

-----------------------------------------------------------------------------
(* Operations of the handler, each run to completion *)

\* an Alert a caller can hold: the one build returned last, or one it constructed itself
SampleAlert ==
    [id |-> 999, type |-> "AlertType.EVACUATION", disabled_tiles |-> <<501, 502>>,
     message |-> T_EVACUATION, timestamp |-> ParseDatetime("2025-01-01T10:00:00"),
     severity |-> "HIGH"]

AlertsAtHand == {built[i] : i \in {Len(built)} \ {0}} \cup {SampleAlert}

\* the inbound subscription is live: the network loop delivers messages
Listening ==
    /\ simulator_client.state = "Connected"
    /\ simulator_client.loop
    /\ \E sub \in simulator_client.subscriptions : sub.topic = simulator_topic

SetMessageCallback(cb) ==
    /\ message_callback' = cb
    /\ UNCHANGED escaped
    /\ UNCHANGED <<alert_id_counter, connVars, histVars, ops, threadVars, procVars, caplog>>

\* _on_message run to completion on a message the broker delivers
Deliver(m, outcome) ==
    /\ Listening
    /\ \E r \in {on_message(alert_id_counter, message_callback, m, outcome)} :
           /\ alert_id_counter' = r.counter
           /\ published' = published \o r.calls
           /\ built' = built \o r.built
           /\ hook_calls' = hook_calls \o r.hook_calls
           /\ escaped' = escaped \cup Escaped("_on_message", r.exc)
    /\ ops' = ops + 1
    /\ UNCHANGED <<message_callback, connVars, threadVars, procVars, caplog>>

OnMessage(m, outcome) ==
    /\ ops < MaxOps
    /\ Deliver(m, outcome)

CreateAlertFromEvent(event) ==
    /\ ops < MaxOps
    /\ LET r == create_alert_from_event(alert_id_counter, event)
       IN  /\ alert_id_counter' = r.counter
           /\ built' = built \o r.alerts
           /\ escaped' = escaped \cup Escaped("_create_alert_from_event", r.exc)
    /\ ops' = ops + 1
    /\ UNCHANGED <<message_callback, connVars, published, hook_calls, threadVars, procVars,
                   caplog>>

BroadcastAlert(alert, outcome) ==
    /\ ops < MaxOps
    /\ LET r == broadcast_alert(alert, outcome)
       IN  /\ published' = published \o r.calls
           /\ escaped' = escaped \cup Escaped("broadcast_alert", r.exc)
    /\ ops' = ops + 1
    /\ UNCHANGED <<alert_id_counter, message_callback, connVars, built, hook_calls,
                   threadVars, procVars, caplog>>

SendAlertToClient(client_id, alert, outcome) ==
    /\ ops < MaxOps
    /\ LET r == send_alert_to_client(client_id, alert, outcome)
       IN  /\ published' = published \o r.calls
           /\ escaped' = escaped \cup Escaped("send_alert_to_client", r.exc)
    /\ ops' = ops + 1
    /\ UNCHANGED <<alert_id_counter, message_callback, connVars, built, hook_calls,
                   threadVars, procVars, caplog>>

-----------------------------------------------------------------------------
(* Connections: start, stop and the paho callbacks *)

\* logger.warning(...): the record is kept when a capturing handler is attached
Warning(capture, connection, rc) ==
    IF capture.on
    THEN [capture EXCEPT !.warnings = Append(@, [connection |-> connection, rc |-> rc])]
    ELSE capture

\* a disconnect callback that warns whatever the reason code is
OnDisconnectWarnsAlways(capture, connection, rc) == Warning(capture, connection, rc)

\* the body of _on_simulator_disconnect and of _on_client_disconnect:
\* if rc != 0: logger.warning(...)
on_disconnect(capture, connection, rc) ==
    IF rc # 0 THEN Warning(capture, connection, rc) ELSE capture

\* client.disconnect() called by stop(): paho runs the disconnect callback with
\* reason code 0 when the client had a connection, and runs nothing otherwise
DisconnectByStop(capture, client, connection) ==
    IF client.state = "Connected" THEN on_disconnect(capture, connection, 0) ELSE capture

\* start(): connect and loop_start on the simulator client, then on the publisher;
\* an exception of either connect is logged and re-raised
StartEffect(sim_ok, pub_ok) ==
    /\ simulator_client' =
         IF sim_ok THEN [state |-> "Connecting", loop |-> TRUE, subscriptions |-> {}]
         ELSE simulator_client
    /\ client_publisher' =
         IF sim_ok /\ pub_ok
         THEN [state |-> "Connecting", loop |-> TRUE, subscriptions |-> {}]
         ELSE client_publisher
    /\ escaped' = escaped \cup Escaped("start", IF sim_ok /\ pub_ok THEN "none"
                                                  ELSE "ConnectionRefusedError")

Start(sim_ok, pub_ok) ==
    /\ StartEffect(sim_ok, pub_ok)
    /\ UNCHANGED <<alert_id_counter, message_callback, histVars, ops, threadVars, procVars,
                   caplog>>

\* stop(): loop_stop and disconnect on both clients
\* a stop() in which tearing down a client whose loop was never started raises
StopEffectRaisesWhenNotStarted ==
    /\ simulator_client' = NewClient
    /\ client_publisher' = NewClient
    /\ escaped' = escaped \cup
                    Escaped("stop", IF simulator_client.loop /\ client_publisher.loop
                                    THEN "none" ELSE "RuntimeError")
    /\ caplog' = DisconnectByStop(DisconnectByStop(caplog, simulator_client, "simulator"),
                                  client_publisher, "client")

StopEffect ==
    /\ simulator_client' = NewClient
    /\ client_publisher' = NewClient
    /\ UNCHANGED escaped
    /\ caplog' = DisconnectByStop(DisconnectByStop(caplog, simulator_client, "simulator"),
                                  client_publisher, "client")

\* a stop() that starts the ids again from 1
StopResetsCounter ==
    /\ StopEffect
    /\ alert_id_counter' = 0
    /\ UNCHANGED <<message_callback, histVars, ops, threadVars, procVars>>

Stop ==
    /\ StopEffect
    /\ UNCHANGED <<alert_id_counter, message_callback, histVars, ops, threadVars, procVars>>

ConnackCodes == {0, 5}

\* a connect callback that subscribes whatever the result code is
OnSimulatorConnectSubscribesAlways(rc) ==
    /\ simulator_client.state = "Connecting"
    /\ simulator_client.loop
    /\ simulator_client' =
         [simulator_client EXCEPT
            !.state = IF rc = 0 THEN "Connected" ELSE "Disconnected",
            !.subscriptions = @ \cup {[topic |-> simulator_topic, qos |-> 0]}]
    /\ UNCHANGED escaped
    /\ UNCHANGED <<alert_id_counter, message_callback, client_publisher, histVars, ops,
                   threadVars, procVars, caplog>>

\* _on_simulator_connect: subscribe on rc 0, log an error otherwise
OnSimulatorConnect(rc) ==
    /\ simulator_client.state = "Connecting"
    /\ simulator_client.loop
    /\ simulator_client' =
         IF rc = 0
         THEN [simulator_client EXCEPT
                 !.state = "Connected",
                 !.subscriptions = @ \cup {[topic |-> simulator_topic, qos |-> 0]}]
         ELSE [simulator_client EXCEPT !.state = "Disconnected"]
    /\ UNCHANGED escaped
    /\ UNCHANGED <<alert_id_counter, message_callback, client_publisher, histVars, ops,
                   threadVars, procVars, caplog>>

\* _on_client_connect: log only
OnClientConnect(rc) ==
    /\ client_publisher.state = "Connecting"
    /\ client_publisher.loop
    /\ client_publisher' =
         [client_publisher EXCEPT !.state = IF rc = 0 THEN "Connected" ELSE "Disconnected"]
    /\ UNCHANGED escaped
    /\ UNCHANGED <<alert_id_counter, message_callback, simulator_client, histVars, ops,
                   threadVars, procVars, caplog>>

DisconnectCodes == {0, 7}

\* a disconnect callback after which the client is at once connecting again
OnSimulatorDisconnectReconnects(rc) ==
    /\ simulator_client.state = "Connected"
    /\ simulator_client.loop
    /\ simulator_client' = [simulator_client EXCEPT !.state = "Connecting",
                                                    !.subscriptions = {}]
    /\ UNCHANGED escaped
    /\ UNCHANGED <<alert_id_counter, message_callback, client_publisher, histVars, ops,
                   threadVars, procVars, caplog>>

\* _on_simulator_disconnect: warn when rc is not 0
OnSimulatorDisconnect(rc) ==
    /\ simulator_client.state = "Connected"
    /\ simulator_client.loop
    /\ simulator_client' = [simulator_client EXCEPT !.state = "Disconnected",
                                                    !.subscriptions = {}]
    /\ caplog' = on_disconnect(caplog, "simulator", rc)
    /\ UNCHANGED escaped
    /\ UNCHANGED <<alert_id_counter, message_callback, client_publisher, histVars, ops,
                   threadVars, procVars>>

\* _on_client_disconnect: warn when rc is not 0
OnClientDisconnect(rc) ==
    /\ client_publisher.state = "Connected"
    /\ client_publisher.loop
    /\ client_publisher' = [client_publisher EXCEPT !.state = "Disconnected"]
    /\ caplog' = on_disconnect(caplog, "client", rc)
    /\ UNCHANGED escaped
    /\ UNCHANGED <<alert_id_counter, message_callback, simulator_client, histVars, ops,
                   threadVars, procVars>>

-----------------------------------------------------------------------------
(* The handler driven one operation at a time *)

Next ==
    \/ \E cb \in Hooks : SetMessageCallback(cb)
    \/ \E m \in Messages, outcome \in PublishOutcomes : OnMessage(m, outcome)
    \/ \E event \in Events : CreateAlertFromEvent(event)
    \/ \E alert \in AlertsAtHand, outcome \in PublishOutcomes : BroadcastAlert(alert, outcome)
    \/ \E c \in ClientIds, alert \in AlertsAtHand, outcome \in PublishOutcomes :
          SendAlertToClient(c, alert, outcome)
    \/ \E sim_ok \in BOOLEAN, pub_ok \in BOOLEAN : Start(sim_ok, pub_ok)
    \/ Stop
    \/ \E rc \in ConnackCodes : OnSimulatorConnect(rc)
    \/ \E rc \in ConnackCodes : OnClientConnect(rc)
    \/ \E rc \in DisconnectCodes : OnSimulatorDisconnect(rc)
    \/ \E rc \in DisconnectCodes : OnClientDisconnect(rc)

Spec == Init /\ [][Next]_vars

-----------------------------------------------------------------------------
(* The default policy on its own: the handler is started, no hook is ever      *)
(* installed, and the broker delivers up to MaxMessages messages one at a time *)

RelayMessage(m, outcome) ==
    /\ ops < MaxMessages
    /\ Deliver(m, outcome)

NextRelay ==
    \/ Start(TRUE, TRUE)
    \/ OnSimulatorConnect(0)
    \/ OnClientConnect(0)
    \/ \E m \in Messages, outcome \in PublishOutcomes : RelayMessage(m, outcome)

SpecRelay == Init /\ [][NextRelay]_vars

-----------------------------------------------------------------------------
(* The handler under a capturing log handler of level WARNING: the records    *)
(* the two disconnect callbacks emit are kept, up to MaxWarnings of them      *)

InitNotify ==
    /\ InitHandler
    /\ svc = NoService
    /\ net = NetIdle
    /\ stopper = NoStopper
    /\ caplog = EmptyCapture

SimulatorDisconnectCaptured(rc) ==
    /\ Len(caplog.warnings) < MaxWarnings
    /\ OnSimulatorDisconnect(rc)

ClientDisconnectCaptured(rc) ==
    /\ Len(caplog.warnings) < MaxWarnings
    /\ OnClientDisconnect(rc)

NextNotify ==
    \/ Start(TRUE, TRUE)
    \/ Stop
    \/ OnSimulatorConnect(0)
    \/ OnClientConnect(0)
    \/ \E rc \in DisconnectCodes : SimulatorDisconnectCaptured(rc)
    \/ \E rc \in DisconnectCodes : ClientDisconnectCaptured(rc)
    \/ \E cb \in {"None", "process_emergency_event"} : SetMessageCallback(cb)
    \/ \E event \in Events : CreateAlertFromEvent(event)

SpecNotify == InitNotify /\ [][NextNotify]_vars

-----------------------------------------------------------------------------
(* _create_alert_from_event called from several threads at once: the statement *)
(* of line 102 reads the counter, then writes it; line 119 reads it again.     *)

\* an Event whose build raises nothing
GoodEvents == {e \in Events : NewAlert(0, e).exc = "none"}

\* line 102, first half: read self.alert_id_counter
ThreadLoad(t) ==
    /\ pc[t] = "idle"
    /\ reg' = [reg EXCEPT ![t] = alert_id_counter]
    /\ pc' = [pc EXCEPT ![t] = "loaded"]
    /\ UNCHANGED <<alert_id_counter, message_callback, connVars, histVars, escaped, ops, ret,
                   procVars, caplog>>

\* line 102, second half: write the value read plus one
ThreadStore(t) ==
    /\ pc[t] = "loaded"
    /\ alert_id_counter' = reg[t] + 1
    /\ pc' = [pc EXCEPT ![t] = "stored"]
    /\ UNCHANGED <<message_callback, connVars, histVars, escaped, ops, reg, ret, procVars,
                   caplog>>

\* line 119: id=self.alert_id_counter, and the Alert is returned
ThreadReturn(t, event) ==
    /\ pc[t] = "stored"
    /\ ret' = [ret EXCEPT ![t] = alert_id_counter]
    /\ built' = Append(built, NewAlert(alert_id_counter, event).alert)
    /\ pc' = [pc EXCEPT ![t] = "done"]
    /\ UNCHANGED <<alert_id_counter, message_callback, connVars, published, hook_calls,
                   escaped, ops, reg, procVars, caplog>>

NextThreads ==
    \/ \E t \in Threads : ThreadLoad(t)
    \/ \E t \in Threads : ThreadStore(t)
    \/ \E t \in Threads, event \in GoodEvents : ThreadReturn(t, event)

SpecThreads == Init /\ [][NextThreads]_vars

-----------------------------------------------------------------------------
(* Claims C1, C2, C8: alert ids and build *)

\* C1: for non-overlapping build calls the k-th call returns an Alert with id k:
\* the Alerts returned so far carry the ids 1, 2, 3, ... in order, none skipped
C1_IdsAreCallOrdinals ==
    \A i \in 1..Len(built) : built[i].id = i

\* C2: when the build calls of all threads have returned, no two returned the same
\* id and the ids returned are exactly 1..n
C2_ConcurrentIdsDistinct ==
    (\A t \in Threads : pc[t] = "done") => {ret[t] : t \in Threads} = 1..NThreads

\* C8: build never fails on a validated Event: no call of _create_alert_from_event
\* lets an exception reach its caller
C8_BuildNeverRaises ==
    \A e \in escaped : e[1] # "_create_alert_from_event"

-----------------------------------------------------------------------------
(* Claims C3..C7: _on_message *)

\* the inbound messages that decode to a valid Event, stated on the raw message
DecodesToEvent(m) ==
    m.kind = "object" /\ RequiredFields \subseteq m.fields /\ m.timestamp # "not-a-date"

\* the inbound messages that are not decodable or lack a required Event field
NotAnEvent(m) ==
    m.kind # "object" \/ ~(RequiredFields \subseteq m.fields)

\* a step in which _on_message ran
OnMessageStep == ops' = ops + 1 /\ Listening

\* C3: with no hook registered, a message that decodes to a valid Event makes
\* _on_message build exactly once and broadcast exactly once the Alert that build
\* returned, on "alerts/broadcast", and nothing on a client-specific topic
C3_DefaultBuildsThenBroadcasts ==
    [][(OnMessageStep /\ message_callback = "None") =>
        \A m \in {x \in Messages : DecodesToEvent(x)}, outcome \in PublishOutcomes :
            OnMessage(m, outcome) =>
                /\ alert_id_counter' = alert_id_counter + 1
                /\ Len(built') = Len(built) + 1
                /\ published' = Append(published,
                        PublishCall("alerts/broadcast",
                                    ModelDumpJson(Project(built'[Len(built')])), outcome))
      ]_vars

\* C4: with a hook registered, a message that decodes to a valid Event makes
\* _on_message call the hook exactly once with that Event and do nothing else: the
\* counter, the Alerts built and the publish calls are those of the hook alone
C4_HookReplacesDefault ==
    [][(OnMessageStep /\ message_callback # "None") =>
        \A m \in {x \in Messages : DecodesToEvent(x)}, outcome \in PublishOutcomes :
            OnMessage(m, outcome) =>
                LET h == RunHook(message_callback, alert_id_counter, ParseEvent(m), outcome)
                IN  /\ hook_calls' = Append(hook_calls, ParseEvent(m))
                    /\ alert_id_counter' = h.counter
                    /\ built' = built \o h.built
                    /\ published' = published \o h.calls
                    /\ message_callback \in {"drop_all", "faulty"} =>
                          UNCHANGED <<alert_id_counter, built, published>>
                    /\ UNCHANGED <<message_callback, connVars>>
      ]_vars

\* C4 witness: the one operation run so far handed an Event to a hook that does
\* nothing, and the counter and the outbound channel are untouched
C4_Witness ==
    /\ ops = 1
    /\ Len(hook_calls) = 1
    /\ message_callback = "drop_all"
    /\ alert_id_counter = 0
    /\ published = <<>>

\* C5: a message that is not decodable or lacks a required field produces no Alert,
\* calls no hook, publishes nothing, lets nothing escape and leaves the counter,
\* the hook and both connections unchanged
C5_RejectedMessageChangesNothing ==
    [][OnMessageStep =>
        \A m \in {x \in Messages : NotAnEvent(x)}, outcome \in PublishOutcomes :
            OnMessage(m, outcome) =>
                UNCHANGED <<alert_id_counter, message_callback, connVars, published,
                            built, hook_calls, escaped>>
      ]_vars

\* C5 witness: one message was handled and nothing but the operation count moved
C5_Witness ==
    /\ ops = 1
    /\ Listening
    /\ alert_id_counter = 0
    /\ published = <<>> /\ built = <<>> /\ hook_calls = <<>>
    /\ escaped = {}

\* the handler has so far seen nothing but messages it rejected
OnlyRejectedSoFar ==
    /\ ops > 0
    /\ alert_id_counter = 0
    /\ published = <<>> /\ built = <<>> /\ hook_calls = <<>>

\* C6: after malformed messages only, the next valid message is handled under the
\* default policy as if they had never arrived: it is built with id 1 and broadcast
C6_ValidAfterMalformed ==
    [][(OnMessageStep /\ OnlyRejectedSoFar /\ message_callback = "None") =>
        \A m \in {x \in Messages : DecodesToEvent(x)}, outcome \in PublishOutcomes :
            OnMessage(m, outcome) =>
                /\ Len(built') = 1 /\ built'[1].id = 1
                /\ published' = <<PublishCall("alerts/broadcast",
                                              ModelDumpJson(Project(built'[1])), outcome)>>
      ]_vars

\* C7: no per-message failure escapes _on_message: whatever message arrives in
\* whatever state, and whatever the hook, build or publish do, it returns normally
C7_NothingEscapesOnMessage ==
    /\ \A e \in escaped : e[1] # "_on_message"
    /\ \A m \in Messages, outcome \in PublishOutcomes :
          on_message(alert_id_counter, message_callback, m, outcome).exc = "none"

\* C7 witness: the one operation run so far consumed an id without returning an
\* Alert (build raised inside _on_message) and nothing reached the caller
C7_Witness ==
    /\ ops = 1
    /\ alert_id_counter = 1
    /\ built = <<>>
    /\ escaped = {}

-----------------------------------------------------------------------------
(* Claims C9, C10: broadcast_alert and send_alert_to_client called directly *)

\* a step in which a publishing operation ran
PublishStep == ops' = ops + 1

\* the publish calls of this step
NewCalls == SubSeq(published', Len(published) + 1, Len(published'))

\* the projected body of an Alert, field by field
IsBodyOf(payload, alert) ==
    /\ payload.members.alert_id = alert.id
    /\ payload.members.alert_type = AlertTypeValue(alert.type)
    /\ payload.members.message = alert.message
    /\ payload.members.severity = alert.severity
    /\ payload.members.affected_areas = alert.disabled_tiles

\* C9: broadcast_alert makes exactly one publish call, on "alerts/broadcast"; when
\* publish returns an error code there is no second call, nothing is raised, and
\* the counter, the hook and both connections are as before
C9_BroadcastPublishesOnce ==
    [][PublishStep =>
        \A alert \in AlertsAtHand, outcome \in PublishOutcomes :
            BroadcastAlert(alert, outcome) =>
                /\ Len(published') = Len(published) + 1
                /\ SubSeq(published', 1, Len(published)) = published
                /\ NewCalls[1].topic = "alerts/broadcast"
                /\ IsBodyOf(NewCalls[1].payload, alert)
                /\ outcome = "MQTT_ERR_NO_CONN" =>
                      UNCHANGED <<escaped, alert_id_counter, message_callback, connVars>>
      ]_vars

\* C9 witness: the one operation run so far was a direct broadcast whose publish
\* returned an error code, and nothing was raised
C9_Witness ==
    /\ ops = 1
    /\ alert_id_counter = 0
    /\ hook_calls = <<>>
    /\ Len(published) = 1
    /\ published[1].topic = broadcast_topic
    /\ published[1].outcome = "MQTT_ERR_NO_CONN"
    /\ escaped = {}

\* C10: send_alert_to_client(c, a) makes exactly one publish call, on
\* client_topic_prefix + "/" + c, with the body broadcast_alert(a) publishes; when
\* publish returns an error code there is no second call and nothing is raised
C10_SendPublishesOnceToClientTopic ==
    [][PublishStep =>
        \A c \in ClientIds, alert \in AlertsAtHand, outcome \in PublishOutcomes :
            SendAlertToClient(c, alert, outcome) =>
                /\ Len(published') = Len(published) + 1
                /\ SubSeq(published', 1, Len(published)) = published
                /\ NewCalls[1].topic = client_topic_prefix \o "/" \o c
                /\ c = "c42" => NewCalls[1].topic = "alerts/client/c42"
                /\ NewCalls[1].payload = broadcast_alert(alert, outcome).calls[1].payload
                /\ IsBodyOf(NewCalls[1].payload, alert)
                /\ outcome = "MQTT_ERR_NO_CONN" => UNCHANGED escaped
      ]_vars

\* C10 witness: the one operation run so far published on "alerts/client/c42" and
\* got an error code back
C10_Witness ==
    /\ ops = 1
    /\ Len(published) = 1
    /\ published[1].topic = "alerts/client/c42"
    /\ published[1].outcome = "MQTT_ERR_NO_CONN"
    /\ escaped = {}

-----------------------------------------------------------------------------
(* main.py: AlertService.__init__ *)

\* the variables __init__ reads, and the two more that the tests set
EnvNames ==
    {"MQTT_BROKER", "MQTT_PORT", "SIMULATOR_TOPIC", "CLIENT_TOPIC_PREFIX",
     "SIMULATOR_BROKER", "SIMULATOR_PORT"}

\* values a variable can be set to: the one test_main.py sets, and for the port a
\* text that is not a number
EnvValues(name) ==
    CASE name = "MQTT_BROKER" -> {"client-broker"}
      [] name = "MQTT_PORT" -> {"1886", "mqtt"}
      [] name = "SIMULATOR_TOPIC" -> {"test/topic"}
      [] name = "CLIENT_TOPIC_PREFIX" -> {"test/alerts"}
      [] name = "SIMULATOR_BROKER" -> {"test-broker"}
      [] name = "SIMULATOR_PORT" -> {"1885"}

\* what os.environ holds for a name: a value, or nothing ("unset")
Settings(name) == {"unset"} \cup EnvValues(name)

\* an environment: every combination of set and unset variables
Environments ==
    {[MQTT_BROKER |-> b, MQTT_PORT |-> p, SIMULATOR_TOPIC |-> t, CLIENT_TOPIC_PREFIX |-> c,
      SIMULATOR_BROKER |-> sb, SIMULATOR_PORT |-> sp] :
        b \in Settings("MQTT_BROKER"), p \in Settings("MQTT_PORT"),
        t \in Settings("SIMULATOR_TOPIC"), c \in Settings("CLIENT_TOPIC_PREFIX"),
        sb \in Settings("SIMULATOR_BROKER"), sp \in Settings("SIMULATOR_PORT")}

\* os.getenv(name, default)
getenv(env, name, default) == IF env[name] = "unset" THEN default ELSE env[name]

\* the parameters of MQTTAlertHandler.__init__
HandlerRequired == {"simulator_broker", "simulator_port", "client_broker", "client_port"}

HandlerOptional == {"simulator_topic", "client_topic_prefix"}

\* the keyword arguments AlertService.__init__ passes
ServiceKeywords == {"broker", "port", "simulator_topic", "client_topic_prefix"}

\* Python binding keyword arguments to the parameters of a function
BindKeywords(keywords, required, optional) ==
    IF keywords \subseteq (required \cup optional) /\ required \subseteq keywords
    THEN "none" ELSE "TypeError"

\* lines 21-32: the configuration read, and the exception raised on the way (if any)
service_init(env) ==
    LET port == ParseInt(getenv(env, "MQTT_PORT", "1883"))
        config == [broker |-> getenv(env, "MQTT_BROKER", "localhost"),
                   port |-> port.value,
                   simulator_topic |-> getenv(env, "SIMULATOR_TOPIC", "stadium/events/emergency"),
                   client_topic_prefix |-> getenv(env, "CLIENT_TOPIC_PREFIX", "alerts/client")]
    IN  [config |-> config,
         exc |-> IF port.exc # "none" THEN port.exc
                 ELSE BindKeywords(ServiceKeywords, HandlerRequired, HandlerOptional)]

\* service = AlertService()
ServiceInit ==
    /\ svc.pc = "main"
    /\ LET r == service_init(svc.env)
       IN  /\ svc' = IF r.exc = "none"
                     THEN [svc EXCEPT !.pc = "constructed", !.handler = {r.config}]
                     ELSE [svc EXCEPT !.pc = "raised", !.exc = r.exc]
           /\ message_callback' = IF r.exc = "none" THEN "process_emergency_event"
                                  ELSE message_callback
           /\ escaped' = escaped \cup Escaped("AlertService.__init__", r.exc)
    /\ UNCHANGED <<alert_id_counter, connVars, histVars, ops, threadVars, net, stopper,
                   caplog>>

\* __main__ about to construct the service, in any environment
InitService ==
    /\ InitHandler
    /\ svc \in {[NoService EXCEPT !.pc = "main", !.registered = TRUE, !.env = e] :
                   e \in Environments}
    /\ net = NetIdle
    /\ stopper = NoStopper
    /\ caplog = NoCapture

NextService ==
    \/ ServiceInit

SpecService == InitService /\ [][NextService]_vars

-----------------------------------------------------------------------------
(* main.py: AlertService.start, AlertService.stop, signal_handler.            *)
(* svc.pc is the statement the main thread is about to execute:               *)
(*   "start_entry" lines 57-59, "try_handler_start" line 62,                  *)
(*   "try_set_running" lines 63-65, "loop" lines 68-69,                       *)
(*   "except_keyboard" line 72, "except_exception" line 74,                   *)
(*   "finally" line 76 with lines 80-81, "stop_handler" line 82,              *)
(*   "stop_exit" line 83, "done" start() has been left;                       *)
(*   in a stop() called by the owner after start() has been left:             *)
(*   "call_stop_handler" line 82, "call_stop_exit" line 83, "stopped" returned *)

TryBlock == {"try_handler_start", "try_set_running", "loop"}

ExceptBlocks == {"except_keyboard", "except_exception"}

StopCall == {"call_stop_handler", "call_stop_exit"}

\* subclasses of Exception, which "except Exception" catches; SystemExit and
\* KeyboardInterrupt are not
IsException(x) == x \notin {"SystemExit", "KeyboardInterrupt"}

\* exception x raised while the main thread is at position p of start()
Unwind(service, x) ==
    CASE service.pc \in TryBlock /\ x = "KeyboardInterrupt" ->
            [service EXCEPT !.pc = "except_keyboard"]
      [] service.pc \in TryBlock /\ IsException(x) ->
            [service EXCEPT !.pc = "except_exception"]
      [] service.pc \in TryBlock \cup ExceptBlocks ->
            [service EXCEPT !.pc = "finally", !.pending = x]
      [] service.pc \in StopCall ->
            [service EXCEPT !.pc = "stopped", !.pending = "none", !.exc = x]
      [] OTHER ->
            [service EXCEPT !.pc = "done", !.pending = "none", !.exc = x]

\* lines 57-59: the log lines before the try statement
ServiceStartEnter ==
    /\ svc.pc = "start_entry"
    /\ svc' = [svc EXCEPT !.pc = "try_handler_start"]
    /\ UNCHANGED <<alert_id_counter, message_callback, connVars, histVars, escaped, ops,
                   threadVars, net, stopper, caplog>>

\* line 62: self.mqtt_handler.start()
ServiceHandlerStart(sim_ok, pub_ok) ==
    /\ svc.pc = "try_handler_start"
    /\ StartEffect(sim_ok, pub_ok)
    /\ svc' = IF sim_ok /\ pub_ok THEN [svc EXCEPT !.pc = "try_set_running"]
              ELSE Unwind(svc, "ConnectionRefusedError")
    /\ UNCHANGED <<alert_id_counter, message_callback, histVars, ops, threadVars, net,
                   stopper, caplog>>

\* lines 63-65: self.running = True
ServiceSetRunning ==
    /\ svc.pc = "try_set_running"
    /\ svc' = [svc EXCEPT !.pc = "loop", !.running = TRUE]
    /\ UNCHANGED <<alert_id_counter, message_callback, connVars, histVars, escaped, ops,
                   threadVars, net, stopper, caplog>>

\* lines 71-74: an except clause logs and falls through to finally
ServiceExcept ==
    /\ svc.pc \in ExceptBlocks
    /\ svc' = [svc EXCEPT !.pc = "finally"]
    /\ UNCHANGED <<alert_id_counter, message_callback, connVars, histVars, escaped, ops,
                   threadVars, net, stopper, caplog>>

\* line 76 and lines 80-81: finally calls self.stop(), which clears running
ServiceStopEnter ==
    /\ svc.pc = "finally"
    /\ svc' = [svc EXCEPT !.pc = "stop_handler", !.running = FALSE]
    /\ UNCHANGED <<alert_id_counter, message_callback, connVars, histVars, escaped, ops,
                   threadVars, net, stopper, caplog>>

\* line 82: self.mqtt_handler.stop()
ServiceHandlerStop ==
    /\ svc.pc = "stop_handler"
    /\ StopEffect
    /\ svc' = [svc EXCEPT !.pc = "stop_exit", !.stops = @ + 1]
    /\ UNCHANGED <<alert_id_counter, message_callback, histVars, ops, threadVars, net,
                   stopper>>

\* line 83: stop() returns, the finally clause ends and a pending exception goes on
ServiceStopExit ==
    /\ svc.pc = "stop_exit"
    /\ svc' = [svc EXCEPT !.pc = "done", !.pending = "none", !.exc = svc.pending]
    /\ UNCHANGED <<alert_id_counter, message_callback, connVars, histVars, escaped, ops,
                   threadVars, net, stopper, caplog>>

\* service.stop() called after start() has been left: lines 80-81
ServiceStopCall ==
    /\ svc.pc = "done"
    /\ svc' = [svc EXCEPT !.pc = "call_stop_handler", !.running = FALSE]
    /\ UNCHANGED <<alert_id_counter, message_callback, connVars, histVars, escaped, ops,
                   threadVars, net, stopper, caplog>>

\* line 82 of that call: self.mqtt_handler.stop()
ServiceStopCallHandlerStop ==
    /\ svc.pc = "call_stop_handler"
    /\ StopEffect
    /\ svc' = [svc EXCEPT !.pc = "call_stop_exit", !.stops = @ + 1]
    /\ UNCHANGED <<alert_id_counter, message_callback, histVars, ops, threadVars, net,
                   stopper>>

\* line 83 of that call: stop() returns to its caller
ServiceStopCallExit ==
    /\ svc.pc = "call_stop_exit"
    /\ svc' = [svc EXCEPT !.pc = "stopped"]
    /\ UNCHANGED <<alert_id_counter, message_callback, connVars, histVars, escaped, ops,
                   threadVars, net, stopper, caplog>>

\* what a SIGINT or SIGTERM raises in the main thread: signal_handler calls
\* sys.exit(0) when __main__ registered it, otherwise SIGINT raises KeyboardInterrupt
signal_handler(registered) == IF registered THEN "SystemExit" ELSE "KeyboardInterrupt"

\* a signal is delivered while the main thread is inside start()
SignalArrives ==
    /\ svc.pc \notin {"none", "main", "constructed", "raised", "done", "stopped"}
    /\ svc.signals < MaxSignals
    /\ svc' = [Unwind(svc, signal_handler(svc.registered)) EXCEPT !.signals = @ + 1]
    /\ UNCHANGED <<alert_id_counter, message_callback, connVars, histVars, escaped, ops,
                   threadVars, net, stopper, caplog>>

\* service.start() is called on a service that owns a handler with the hook installed
InitServiceRun ==
    /\ InitHandlerWith("process_emergency_event")
    /\ svc \in {[NoService EXCEPT !.pc = "start_entry", !.registered = r] : r \in BOOLEAN}
    /\ net = NetIdle
    /\ stopper = NoStopper
    /\ caplog = NoCapture

NextServiceRun ==
    \/ ServiceStartEnter
    \/ \E sim_ok \in BOOLEAN, pub_ok \in BOOLEAN : ServiceHandlerStart(sim_ok, pub_ok)
    \/ ServiceSetRunning
    \/ ServiceExcept
    \/ ServiceStopEnter
    \/ ServiceHandlerStop
    \/ ServiceStopExit
    \/ ServiceStopCall
    \/ ServiceStopCallHandlerStop
    \/ ServiceStopCallExit
    \/ SignalArrives
    \/ \E rc \in ConnackCodes : OnSimulatorConnect(rc)
    \/ \E rc \in ConnackCodes : OnClientConnect(rc)
    \/ \E rc \in DisconnectCodes : OnSimulatorDisconnect(rc)
    \/ \E rc \in DisconnectCodes : OnClientDisconnect(rc)

SpecServiceRun == InitServiceRun /\ [][NextServiceRun]_vars

-----------------------------------------------------------------------------
(* _on_message statement by statement on the network thread of simulator_client, *)
(* while other threads call set_message_callback and stop().                     *)
(* net.pc is the statement about to run: "line88" the test of the hook,          *)
(* "line89" the call of the hook, "line92" the default build and broadcast.      *)

\* lines 81-85: the payload is decoded; a payload that is no Event is logged
NetReceive(m) ==
    /\ net.pc = "idle"
    /\ Listening
    /\ ops < MaxOps
    /\ net' = IF DecodeError(m) = "none"
              THEN [net EXCEPT !.pc = "line88", !.event = <<ParseEvent(m)>>,
                               !.decoded = @ + 1]
              ELSE net
    /\ escaped' = escaped \cup Escaped("_on_message", ExceptClauses(DecodeError(m)).exc)
    /\ ops' = ops + 1
    /\ UNCHANGED <<alert_id_counter, message_callback, connVars, histVars, threadVars,
                   svc, stopper, caplog>>

\* line 88: if self.message_callback:
NetCheckHook ==
    /\ net.pc = "line88"
    /\ net' = [net EXCEPT !.pc = IF message_callback # "None" THEN "line89" ELSE "line92"]
    /\ UNCHANGED <<alert_id_counter, message_callback, connVars, histVars, escaped, ops,
                   threadVars, svc, stopper, caplog>>

\* what the call expression self.message_callback(event) does with the value the
\* attribute holds now: calling None raises TypeError
CallHook(cb, counter, event, outcome) ==
    IF cb = "None"
    THEN [counter |-> counter, exc |-> "TypeError", built |-> <<>>, calls |-> <<>>,
          log |-> "none", hook_calls |-> <<>>]
    ELSE RunHook(cb, counter, event, outcome) @@ [hook_calls |-> <<event>>]

\* line 89: self.message_callback(event), under the except clauses of lines 95-98
NetCallHook(outcome) ==
    /\ net.pc = "line89"
    /\ LET r == CallHook(message_callback, alert_id_counter, net.event[1], outcome)
       IN  /\ alert_id_counter' = r.counter
           /\ published' = published \o r.calls
           /\ built' = built \o r.built
           /\ hook_calls' = hook_calls \o r.hook_calls
           /\ escaped' = escaped \cup Escaped("_on_message", ExceptClauses(r.exc).exc)
           /\ net' = [net EXCEPT !.pc = "idle", !.event = <<>>,
                                 !.consumed = @ + Len(r.hook_calls)]
    /\ UNCHANGED <<message_callback, connVars, ops, threadVars, svc, stopper, caplog>>

\* a default branch that cannot go on once loop_stop() has been requested
NetDefaultBlockedByStop(outcome) ==
    /\ net.pc = "line92"
    /\ simulator_client.loop
    /\ LET r == DefaultPolicy(alert_id_counter, net.event[1], outcome)
       IN  /\ alert_id_counter' = r.counter
           /\ published' = published \o r.calls
           /\ built' = built \o r.built
           /\ escaped' = escaped \cup Escaped("_on_message", ExceptClauses(r.exc).exc)
           /\ net' = [net EXCEPT !.pc = "idle", !.event = <<>>, !.consumed = @ + 1]
    /\ UNCHANGED <<message_callback, connVars, hook_calls, ops, threadVars, svc, stopper,
                   caplog>>

\* lines 92-93: the default build and broadcast, under the except clauses
NetDefault(outcome) ==
    /\ net.pc = "line92"
    /\ LET r == DefaultPolicy(alert_id_counter, net.event[1], outcome)
       IN  /\ alert_id_counter' = r.counter
           /\ published' = published \o r.calls
           /\ built' = built \o r.built
           /\ escaped' = escaped \cup Escaped("_on_message", ExceptClauses(r.exc).exc)
           /\ net' = [net EXCEPT !.pc = "idle", !.event = <<>>, !.consumed = @ + 1]
    /\ UNCHANGED <<message_callback, connVars, hook_calls, ops, threadVars, svc, stopper,
                   caplog>>

\* a stop() that goes straight to the outbound client and leaves the inbound one alone
StopBeginSkipsInbound ==
    /\ stopper.pc \in {"idle", "returned"}
    /\ stopper' = [pc |-> "pub_loop_stop", overlapped |-> net.pc # "idle"]
    /\ UNCHANGED <<alert_id_counter, message_callback, connVars, histVars, escaped, ops,
                   threadVars, svc, net, caplog>>

\* stop() is entered by a thread other than the network thread
StopBegin ==
    /\ stopper.pc \in {"idle", "returned"}
    /\ stopper' = [pc |-> "sim_loop_stop", overlapped |-> net.pc # "idle"]
    /\ UNCHANGED <<alert_id_counter, message_callback, connVars, histVars, escaped, ops,
                   threadVars, svc, net, caplog>>

\* line 184, first half: loop_stop() tells the network thread to terminate
StopSimLoopStop ==
    /\ stopper.pc = "sim_loop_stop"
    /\ simulator_client' = [simulator_client EXCEPT !.loop = FALSE]
    /\ stopper' = [pc |-> "sim_join", overlapped |-> stopper.overlapped \/ net.pc # "idle"]
    /\ UNCHANGED <<alert_id_counter, message_callback, client_publisher, histVars, escaped,
                   ops, threadVars, svc, net, caplog>>

\* line 184, second half: loop_stop() joins the network thread, which ends when
\* the callback it is running has returned
StopSimJoin ==
    /\ stopper.pc = "sim_join"
    /\ net.pc = "idle"
    /\ stopper' = [stopper EXCEPT !.pc = "sim_disconnect"]
    /\ UNCHANGED <<alert_id_counter, message_callback, connVars, histVars, escaped, ops,
                   threadVars, svc, net, caplog>>

\* line 185: self.simulator_client.disconnect()
StopSimDisconnect ==
    /\ stopper.pc = "sim_disconnect"
    /\ simulator_client' = NewClient
    /\ caplog' = DisconnectByStop(caplog, simulator_client, "simulator")
    /\ stopper' = [stopper EXCEPT !.pc = "pub_loop_stop"]
    /\ UNCHANGED <<alert_id_counter, message_callback, client_publisher, histVars, escaped,
                   ops, threadVars, svc, net>>

\* line 187: self.client_publisher.loop_stop()
StopPubLoopStop ==
    /\ stopper.pc = "pub_loop_stop"
    /\ client_publisher' = [client_publisher EXCEPT !.loop = FALSE]
    /\ stopper' = [stopper EXCEPT !.pc = "pub_disconnect"]
    /\ UNCHANGED <<alert_id_counter, message_callback, simulator_client, histVars, escaped,
                   ops, threadVars, svc, net, caplog>>

\* lines 188-190: self.client_publisher.disconnect(), and stop() returns
StopPubDisconnect ==
    /\ stopper.pc = "pub_disconnect"
    /\ client_publisher' = NewClient
    /\ caplog' = DisconnectByStop(caplog, client_publisher, "client")
    /\ stopper' = [stopper EXCEPT !.pc = "returned"]
    /\ UNCHANGED <<alert_id_counter, message_callback, simulator_client, histVars, escaped,
                   ops, threadVars, svc, net>>

\* the handler is started while nobody is inside stop()
StartWhenNotStopping ==
    /\ stopper.pc \in {"idle", "returned"}
    /\ Start(TRUE, TRUE)

NetSteps ==
    \/ NetCheckHook
    \/ \E outcome \in PublishOutcomes : NetCallHook(outcome)
    \/ \E outcome \in PublishOutcomes : NetDefault(outcome)

StopSteps ==
    \/ StopSimLoopStop
    \/ StopSimJoin
    \/ StopSimDisconnect
    \/ StopPubLoopStop
    \/ StopPubDisconnect

\* set_message_callback against _on_message
NextHook ==
    \/ StartWhenNotStopping
    \/ OnSimulatorConnect(0)
    \/ OnClientConnect(0)
    \/ \E cb \in Hooks : SetMessageCallback(cb)
    \/ \E m \in Messages : NetReceive(m)
    \/ NetSteps

SpecHook == Init /\ [][NextHook]_vars

\* line 35 of main.py: the Service installs its hook before the handler is started
InstallServiceHook ==
    /\ ~simulator_client.loop
    /\ SetMessageCallback("process_emergency_event")

\* a message is delivered while fewer than MaxCallbacks callbacks have run
NetReceiveBounded(m) ==
    /\ net.decoded < MaxCallbacks
    /\ NetReceive(m)

\* stop() against _on_message
NextStop ==
    \/ StartWhenNotStopping
    \/ OnSimulatorConnect(0)
    \/ OnClientConnect(0)
    \/ InstallServiceHook
    \/ \E m \in {x \in Messages : DecodeError(x) = "none"} : NetReceiveBounded(m)
    \/ NetSteps
    \/ StopBegin
    \/ StopSteps

\* every thread that can take a step is scheduled sooner or later
SpecStop == Init /\ [][NextStop]_vars /\ WF_vars(NetSteps) /\ WF_vars(StopSteps)

-----------------------------------------------------------------------------
(* Build and projection as functions of the Event: the handler, started from *)
(* its constructed state, is handed Events directly                          *)

\* an Event as the tests construct it
EventOf(event_type, metadata, details) ==
    [event_id |-> "evt", event_type |-> event_type,
     timestamp |-> ParseDatetime("2025-01-01T10:00:00"), severity |-> "MEDIUM",
     metadata |-> metadata, details |-> details]

\* event_type values: the map's keys, case variants of them, and strings the map lacks
EventTypes ==
    {T_FIRE, T_fire, T_Fire, T_FIRE_ALERT, T_fire_alert, T_Fire_Alert, T_SECURITY,
     T_security, T_MEDICAL, T_medical, T_Medical, T_EVACUATION, T_evacuation,
     T_UNKNOWN_TYPE, T_WEATHER, T_weather, T_FIREALERT, T_FIRE_padded, <<>>}

ClassifyEvents == {EventOf(t, NoneDict, NoneDict) : t \in EventTypes}

\* values under "disabled_tiles": lists of numbers in two orders, the empty list,
\* a list of numeric strings, a list with a string that is no number, a string, null
TilesValues ==
    {TilesList(<<JInt(101), JInt(102)>>), TilesList(<<JInt(102), JInt(101)>>),
     TilesList(<<>>), TilesList(<<JStr("101"), JStr("102")>>),
     TilesList(<<JInt(101), JStr("A1")>>), TilesStr, TilesNull}

\* Events whose payload is in metadata, with and without the key "disabled_tiles",
\* and Events whose payload is in details
TileEvents ==
    {EventOf(T_FIRE, Dict({"disabled_tiles"}, <<>>, v), NoneDict) : v \in TilesValues}
    \cup {EventOf(T_FIRE, Dict({"description"}, T_FireInB, TilesNull), NoneDict)}
    \cup {EventOf(T_FIRE, md, Dict({"disabled_tiles"}, <<>>, TilesList(<<JInt(102), JInt(101)>>))) :
            md \in {NoneDict, EmptyDict}}

BuildEvents == ClassifyEvents \cup TileEvents

\* AlertService.process_emergency_event called with an Event
ProcessEmergencyEvent(event, outcome) ==
    /\ ops < MaxOps
    /\ LET r == process_emergency_event(alert_id_counter, event, outcome)
       IN  /\ alert_id_counter' = r.counter
           /\ built' = built \o r.built
           /\ published' = published \o r.calls
           /\ escaped' = escaped \cup Escaped("process_emergency_event", r.exc)
    /\ ops' = ops + 1
    /\ UNCHANGED <<message_callback, connVars, hook_calls, threadVars, procVars, caplog>>

NextBuild ==
    \/ \E event \in BuildEvents : CreateAlertFromEvent(event)
    \/ \E event \in TileEvents, outcome \in PublishOutcomes :
          ProcessEmergencyEvent(event, outcome)

SpecBuild == Init /\ [][NextBuild]_vars

-----------------------------------------------------------------------------
(* Build as a function of the Event's two dicts, event_type, timestamp and severity *)

\* an Event with every field the build reads chosen by the caller
EventWith(event_type, timestamp, severity, metadata, details) ==
    [event_id |-> "evt", event_type |-> event_type,
     timestamp |-> ParseDatetime(timestamp), severity |-> severity,
     metadata |-> metadata, details |-> details]

\* metadata: absent, {}, a description only, tiles only
MetadataValues ==
    {NoneDict, EmptyDict, Dict({"description"}, T_FireInB, TilesNull),
     Dict({"disabled_tiles"}, <<>>, TilesList(<<JInt(101)>>))}

\* details: absent, {}, a description only, a description and tiles
DetailsValues ==
    {NoneDict, EmptyDict, Dict({"description"}, T_Smoke, TilesNull),
     Dict({"description", "disabled_tiles"}, T_GateShut, TilesList(<<JInt(102)>>))}

\* every pairing of the two dicts
DetailEvents == {EventOf(T_FIRE, md, dt) : md \in MetadataValues, dt \in DetailsValues}

Timestamps == {"2025-01-01T10:00:00", "2025-01-01T10:00:00Z"}

SeverityTexts == {"MEDIUM", "critical"}

\* Events that differ in event_type, timestamp, severity and description
MessageEvents ==
    {EventWith(t, ts, sv, md, NoneDict) :
        t \in {T_weather, T_fire_alert, T_FIRE}, ts \in Timestamps, sv \in SeverityTexts,
        md \in {NoneDict, Dict({"description"}, T_FireInB, TilesNull)}}

NextDetails ==
    \E event \in DetailEvents \cup MessageEvents : CreateAlertFromEvent(event)

SpecDetails == Init /\ [][NextDetails]_vars

-----------------------------------------------------------------------------
(* Claim C11: classification *)

\* two texts of the same length whose characters are equal or the two cases of a letter
SameIgnoringCase(s, t) ==
    /\ Len(s) = Len(t)
    /\ \A i \in 1..Len(s) :
          \/ s[i] = t[i]
          \/ \E k \in 1..Len(LowerChars) : {s[i], t[i]} = {LowerChars[k], UpperChars[k]}

\* the classification table, read on a text in any letter case
ExpectedAlertType(t) ==
    CASE SameIgnoringCase(t, T_FIRE) \/ SameIgnoringCase(t, T_FIRE_ALERT) -> "AlertType.FIRE"
      [] SameIgnoringCase(t, T_MEDICAL) -> "AlertType.MEDICAL"
      [] SameIgnoringCase(t, T_EVACUATION) -> "AlertType.EVACUATION"
      [] OTHER -> "AlertType.SECURITY"

\* a step in which build returned an Alert
BuildStep == Len(built') = Len(built) + 1

\* C11: the type of the Alert built is the table's value for the uppercased
\* event_type (FIRE and FIRE_ALERT give FIRE, SECURITY, MEDICAL and EVACUATION give
\* themselves, any other string gives SECURITY); event types that differ only in
\* letter case give the same type, whatever the counter and the earlier calls were
C11_ClassificationByUppercase ==
    [][BuildStep =>
        \A e \in ClassifyEvents :
            CreateAlertFromEvent(e) =>
                LET a == built'[Len(built')]
                IN  /\ a.type = ExpectedAlertType(e.event_type)
                    /\ \A i \in 1..Len(built) :
                          SameIgnoringCase(built[i].message, a.message) =>
                              built[i].type = a.type
      ]_vars

\* a lower-case "fire" was classified FIRE after an unknown type was classified SECURITY
C11_Witness ==
    /\ Len(built) = 2
    /\ built[1].message = T_UNKNOWN_TYPE \o <<":", " ">> \o T_EmergencyDetected
    /\ built[1].type = "AlertType.SECURITY"
    /\ built[2].message = T_fire \o <<":", " ">> \o T_EmergencyDetected
    /\ built[2].type = "AlertType.FIRE"
    /\ built[2].id = 2

-----------------------------------------------------------------------------
(* Claims C12, C13, C16, C19: the two connections *)

\* C12: start() raises to its caller whenever one of the two connections is not
\* established: when connect() of either client fails, and also when the broker
\* answers the connection attempt with a refusal code
C12_StartFailsWhenNotEstablished ==
    [][/\ \A sim_ok \in BOOLEAN, pub_ok \in BOOLEAN :
             (Start(sim_ok, pub_ok) /\ ~(sim_ok /\ pub_ok)) =>
                 \E e \in escaped' : e[1] = "start"
       /\ \A rc \in ConnackCodes \ {0} :
             (OnSimulatorConnect(rc) \/ OnClientConnect(rc)) =>
                 \E e \in escaped' : e[1] = "start"
      ]_vars

\* a connection that is closed: Disconnected and no network loop running
Closed(client) == client.state = "Disconnected" /\ ~client.loop

\* C13: stop() called in any handler state (never started, start failed half-way,
\* running, already stopped) returns normally and leaves both connections
\* Disconnected with no loop running; a stop() of a stopped handler changes nothing
C13_StopIdempotentNeverFails ==
    [][Stop =>
        /\ Closed(simulator_client') /\ Closed(client_publisher')
        /\ simulator_client'.subscriptions = {}
        /\ escaped' = escaped
        /\ (Closed(simulator_client) /\ Closed(client_publisher)) => UNCHANGED vars
      ]_vars

\* stop() has been called on a handler that was running (it had handed an Event to
\* the hook) and left both connections closed without raising
C13_Witness ==
    /\ hook_calls # <<>>
    /\ Closed(simulator_client) /\ Closed(client_publisher)
    /\ \A e \in escaped : e[1] # "stop"

\* the transitions Disconnected -> Connecting -> Connected -> Disconnected
ListedTransition(from, to) ==
    \/ from = to
    \/ <<from, to>> \in {<<"Disconnected", "Connecting">>, <<"Connecting", "Connected">>,
                         <<"Connected", "Disconnected">>}

\* a step of start(): connect() on a client that is not Disconnected closes its
\* socket and opens a new one, so the step may pass through Disconnected
StartStep == \E sim_ok \in BOOLEAN, pub_ok \in BOOLEAN : Start(sim_ok, pub_ok)

\* a callback of one connection leaves the other connection as it was
CallbacksIndependent ==
    /\ (\E rc \in ConnackCodes : OnSimulatorConnect(rc)) => UNCHANGED client_publisher
    /\ (\E rc \in DisconnectCodes : OnSimulatorDisconnect(rc)) => UNCHANGED client_publisher
    /\ (\E rc \in ConnackCodes : OnClientConnect(rc)) => UNCHANGED simulator_client
    /\ (\E rc \in DisconnectCodes : OnClientDisconnect(rc)) => UNCHANGED simulator_client

ListedOrFailedAttempt(from, to) ==
    ListedTransition(from, to) \/ <<from, to>> = <<"Connecting", "Disconnected">>

C19_AtLeastOnceEverywhere ==
    /\ \A i \in 1..Len(published) : published[i].qos = 1
    /\ \A sub \in simulator_client.subscriptions : sub.qos = 1

-----------------------------------------------------------------------------
(* Claims C14, C15: the Service *)

\* C14: on every path by which Service.start() ends (a termination signal, a
\* keyboard interrupt, a failure of the handler's start), handler.stop() has been
\* invoked exactly once
C14_HandlerStoppedExactlyOnce ==
    svc.pc = "done" => svc.stops = 1

\* C15: constructing the Service from any environment succeeds and yields a service
\* that owns a handler built with the configuration read (defaults filling what is
\* unset) and with process_emergency_event installed as the hook
C15_ConstructionSucceeds ==
    svc.pc # "main" =>
        /\ svc.pc = "constructed"
        /\ svc.handler = {service_init(svc.env).config}
        /\ message_callback = "process_emergency_event"
        /\ \A e \in escaped : e[1] # "AlertService.__init__"

\* C23: once start() has been ended by an interrupt and the stop() called after it
\* has returned, the handler's stop() has been called exactly once in total
C23_OneHandlerStopAfterInterruptAndStop ==
    (svc.pc = "stopped" /\ svc.signals > 0 /\ svc.exc = "none") => svc.stops = 1

-----------------------------------------------------------------------------
(* Claims C17, C18: _on_message against stop() and set_message_callback *)

\* C17: a stop() entered while an inbound callback may be in flight always returns,
\* with both connections closed and no network loop running: it is never blocked
\* for ever by the callback
C17_StopTerminates ==
    (stopper.pc = "sim_loop_stop") ~>
        (stopper.pc = "returned" /\ Closed(simulator_client) /\ Closed(client_publisher))

\* stop() was entered while a callback was in flight, and has returned
C17_Witness ==
    /\ stopper.pc = "returned"
    /\ stopper.overlapped
    /\ Closed(simulator_client) /\ Closed(client_publisher)

\* C18: whatever set_message_callback does concurrently, every decoded Event is
\* consumed by exactly one path (a hook or the default build-and-broadcast): once
\* the callback has returned, as many Events were consumed as were decoded
C18_EveryEventConsumedOnce ==
    net.consumed = IF net.pc = "idle" THEN net.decoded ELSE net.decoded - 1

-----------------------------------------------------------------------------
(* Claim C20: disabled_tiles end to end *)

\* Python equality of a published integer and a stored JSON item
SameItem(n, item) == item.type = "int" /\ item.int = n

\* the value stored under "disabled_tiles" in the resolved details, [] when absent
StoredTiles(event) ==
    IF "disabled_tiles" \in get_details(event).keys
    THEN get_details(event).disabled_tiles ELSE TilesList(<<>>)

\* C20: the affected_areas of the Client Alert published for an Event equal the
\* sequence stored under "disabled_tiles" in the Event's resolved details, element
\* for element in the same order, and are empty when the key is absent
C20_AffectedAreasAreStoredTiles ==
    [][\A e \in TileEvents, outcome \in PublishOutcomes :
          (ProcessEmergencyEvent(e, outcome) /\ Len(published') = Len(published) + 1) =>
              LET areas == published'[Len(published')].payload.members.affected_areas
                  stored == StoredTiles(e)
              IN  /\ stored.kind = "list"
                  /\ Len(areas) = Len(stored.items)
                  /\ \A i \in 1..Len(areas) : SameItem(areas[i], stored.items[i])
      ]_vars

-----------------------------------------------------------------------------
(* Claims C21, C22: the details accessor and the message *)

\* an Optional[dict] that is not None
Present(d) == ~d.none

\* metadata when present and non-empty, else details when present, else {}
ResolvedDetails(event) ==
    IF Present(event.metadata) /\ event.metadata.keys # {} THEN event.metadata
    ELSE IF Present(event.details) THEN event.details
    ELSE EmptyDict

\* the description an Alert built from these details carries
DescriptionIn(d) == IF "description" \in d.keys THEN d.description ELSE T_EmergencyDetected

\* the tile ids an Alert built from these details carries
TileIdsIn(d) ==
    IF "disabled_tiles" \in d.keys
    THEN [i \in 1..Len(d.disabled_tiles.items) |-> d.disabled_tiles.items[i].int]
    ELSE <<>>

\* C21: get_details returns metadata when metadata is present and non-empty,
\* otherwise details when details is present, otherwise an empty mapping; when both
\* are non-empty it is metadata alone, with no key taken from details, and the Alert
\* built carries the description and tiles of that one mapping
C21_DetailsPrefersMetadata ==
    [][BuildStep =>
        \A e \in DetailEvents :
            CreateAlertFromEvent(e) =>
                LET a == built'[Len(built')]
                    d == ResolvedDetails(e)
                IN  /\ get_details(e).keys = d.keys
                    /\ get_details(e).description = d.description
                    /\ get_details(e).disabled_tiles = d.disabled_tiles
                    /\ (e.metadata.keys # {} /\ e.details.keys # {}) =>
                          get_details(e).keys = e.metadata.keys
                    /\ a.message = e.event_type \o <<":", " ">> \o DescriptionIn(d)
                    /\ a.disabled_tiles = TileIdsIn(d)
      ]_vars

\* an Alert was built from metadata holding tiles only while details held a
\* description and other tiles: the Alert has the fallback phrase and tile 101
C21_Witness ==
    /\ Len(built) = 1
    /\ built[1].message = T_FIRE \o <<":", " ">> \o T_EmergencyDetected
    /\ built[1].disabled_tiles = <<101>>

\* "weather: Emergency detected"
T_weather_EmergencyDetected ==
    <<"w","e","a","t","h","e","r",":"," ","E","m","e","r","g","e","n","c","y"," ",
      "d","e","t","e","c","t","e","d">>

\* C22: the message of the Alert built is the event_type exactly as received, then
\* ": ", then the description of the resolved details or "Emergency detected" when
\* there is none; timestamp and severity are those of the Event
C22_MessageTimestampSeverity ==
    [][BuildStep =>
        \A e \in MessageEvents :
            CreateAlertFromEvent(e) =>
                LET a == built'[Len(built')]
                IN  /\ a.message =
                         e.event_type \o <<":", " ">> \o DescriptionIn(ResolvedDetails(e))
                    /\ SubSeq(a.message, 1, Len(e.event_type)) = e.event_type
                    /\ (e.event_type = T_weather /\ e.metadata.none) =>
                          /\ a.message = T_weather_EmergencyDetected
                          /\ a.type = "AlertType.SECURITY"
                    /\ a.timestamp = e.timestamp
                    /\ a.severity = e.severity
      ]_vars

\* a lower-case "weather" Event without description, severity "critical", was built
C22_Witness ==
    /\ Len(built) = 1
    /\ built[1].message = T_weather_EmergencyDetected
    /\ built[1].severity = "critical"
    /\ built[1].timestamp.tz = "utc"

-----------------------------------------------------------------------------
(* Claims C24, C30: the Service hook against the default policy; ids and Alerts *)

\* what _on_message does to the counter, the Alerts and the outbound channel is the
\* same with the Service hook installed and with no hook
HookAgreesWithDefault(counter, m, outcome) ==
    LET h == on_message(counter, "process_emergency_event", m, outcome)
        d == on_message(counter, "None", m, outcome)
    IN  /\ h.counter = d.counter
        /\ h.built = d.built
        /\ h.calls = d.calls
        /\ h.exc = d.exc

\* C24: for every valid Event, at every counter value and after every earlier
\* message, _on_message with the Service hook and _on_message with no hook assign
\* the same id and make the same publish calls: one build and one broadcast of the
\* Alert built on "alerts/broadcast", nothing on a client-specific topic
C24_ServiceHookIsDefaultPolicy ==
    [][(OnMessageStep /\ message_callback \in {"None", "process_emergency_event"}) =>
        \A m \in {x \in Messages : DecodesToEvent(x)}, outcome \in PublishOutcomes :
            OnMessage(m, outcome) =>
                /\ HookAgreesWithDefault(alert_id_counter, m, outcome)
                /\ alert_id_counter' = alert_id_counter + 1
                /\ Len(built') = Len(built) + 1
                /\ published' = Append(published,
                        PublishCall("alerts/broadcast",
                                    ModelDumpJson(Project(built'[Len(built')])), outcome))
      ]_vars

\* C30: in every reachable state the counter equals the number of Alerts build has
\* returned, so a build that fails consumes no id
C30_CounterCountsAlerts ==
    alert_id_counter = Len(built)

-----------------------------------------------------------------------------
(* Claims C25, C26, C29: subscriptions, the counter's frame, publishing and the *)
(* outbound connection                                                          *)

InboundSubscription == [topic |-> simulator_topic, qos |-> 0]

\* C25: the inbound client subscribes to the configured topic in every connect
\* callback with result code 0 and in no other step; a refusal code subscribes to
\* nothing; the outbound client never holds a subscription; a message is processed
\* only while the inbound connection is Connected
C25_SubscribesExactlyOnSuccess ==
    [][/\ \A rc \in ConnackCodes :
            OnSimulatorConnect(rc) =>
                IF rc = 0
                THEN /\ simulator_client'.state = "Connected"
                     /\ InboundSubscription \in simulator_client'.subscriptions
                ELSE /\ simulator_client'.state # "Connected"
                     /\ simulator_client'.subscriptions = simulator_client.subscriptions
       /\ ~(simulator_client'.subscriptions \subseteq simulator_client.subscriptions) =>
              OnSimulatorConnect(0)
       /\ client_publisher'.subscriptions = {}
       /\ (\E m \in Messages, outcome \in PublishOutcomes : OnMessage(m, outcome)) =>
              simulator_client.state = "Connected"
      ]_vars

\* the inbound connection was accepted and subscribed, the outbound connection was
\* accepted and holds no subscription, and a message has been relayed
C25_Witness ==
    /\ simulator_client.state = "Connected"
    /\ simulator_client.subscriptions = {InboundSubscription}
    /\ client_publisher.state = "Connected"
    /\ client_publisher.subscriptions = {}
    /\ alert_id_counter = 1
    /\ Len(published) = 1

\* a step of an operation that is not build: start, stop, broadcast, send to a
\* client, set_message_callback, a connection callback, a rejected message
NotBuildStep ==
    \/ \E sim_ok \in BOOLEAN, pub_ok \in BOOLEAN : Start(sim_ok, pub_ok)
    \/ Stop
    \/ \E alert \in AlertsAtHand, outcome \in PublishOutcomes : BroadcastAlert(alert, outcome)
    \/ \E c \in ClientIds, alert \in AlertsAtHand, outcome \in PublishOutcomes :
          SendAlertToClient(c, alert, outcome)
    \/ \E cb \in Hooks : SetMessageCallback(cb)
    \/ \E rc \in ConnackCodes : OnSimulatorConnect(rc) \/ OnClientConnect(rc)
    \/ \E rc \in DisconnectCodes : OnSimulatorDisconnect(rc) \/ OnClientDisconnect(rc)
    \/ \E m \in {x \in Messages : NotAnEvent(x)}, outcome \in PublishOutcomes :
          OnMessage(m, outcome)

\* C26: the counter never decreases, and every step of an operation other than
\* build leaves it as it was, also a start() that follows a stop()
C26_OnlyBuildChangesCounter ==
    [][/\ alert_id_counter' >= alert_id_counter
       /\ NotBuildStep => alert_id_counter' = alert_id_counter
      ]_vars

\* an Alert was built by the hook path while the handler was listening, the handler
\* has been started anew since, and the counter is still 1
C26_Witness ==
    /\ alert_id_counter = 1
    /\ Len(hook_calls) = 1
    /\ Len(built) = 1
    /\ simulator_client = [state |-> "Connecting", loop |-> TRUE, subscriptions |-> {}]
    /\ client_publisher = [state |-> "Connecting", loop |-> TRUE, subscriptions |-> {}]

\* C29: every publish call made by the default inbound path is made while the
\* outbound connection is Connected
C29_PublishesOnlyWhileOutboundConnected ==
    [][(OnMessageStep /\ message_callback = "None") =>
        \A m \in Messages, outcome \in PublishOutcomes :
            (OnMessage(m, outcome) /\ Len(published') > Len(published)) =>
                client_publisher.state = "Connected"
      ]_vars

-----------------------------------------------------------------------------
(* Claim C28: order and ids of the publishes of the default policy *)

\* the alert_id of a publish call
AlertIdOf(call) == call.payload.members.alert_id

\* C28: under the default policy, with messages delivered one at a time, the
\* publish made for a message is on "alerts/broadcast", follows every publish made
\* for an earlier message, carries that message's event_type, and its alert_id is
\* the alert_id of the publish before it plus 1
C28_PublishesInOrderIdsByOne ==
    [][\A m \in Messages, outcome \in PublishOutcomes :
          (RelayMessage(m, outcome) /\ published' # published) =>
              /\ Len(published') = Len(published) + 1
              /\ SubSeq(published', 1, Len(published)) = published
              /\ published'[Len(published')].topic = "alerts/broadcast"
              /\ SubSeq(published'[Len(published')].payload.members.message, 1,
                        Len(m.event_type)) = m.event_type
              /\ published # <<>> =>
                    AlertIdOf(published'[Len(published')]) =
                        AlertIdOf(published[Len(published)]) + 1
      ]_vars

-----------------------------------------------------------------------------
(* Claim C27 *)

WarningsAfter(connection, rc) ==
    IF rc # 0 THEN Append(caplog.warnings, [connection |-> connection, rc |-> rc])
    ELSE caplog.warnings

\* C27: a disconnect callback of either connection emits one warning exactly when its
\* reason code is not 0, stop() emits none, and in every such step the client is not
\* set to connect again and the id counter and the hook stay as they were
C27_WarnsExactlyOnUnexpectedDisconnect ==
    [][/\ \A rc \in DisconnectCodes :
            SimulatorDisconnectCaptured(rc) =>
                /\ caplog'.warnings = WarningsAfter("simulator", rc)
                /\ simulator_client'.state = "Disconnected"
                /\ client_publisher' = client_publisher
                /\ UNCHANGED <<alert_id_counter, message_callback>>
       /\ \A rc \in DisconnectCodes :
            ClientDisconnectCaptured(rc) =>
                /\ caplog'.warnings = WarningsAfter("client", rc)
                /\ client_publisher'.state = "Disconnected"
                /\ simulator_client' = simulator_client
                /\ UNCHANGED <<alert_id_counter, message_callback>>
       /\ Stop =>
                /\ caplog'.warnings = caplog.warnings
                /\ simulator_client'.state = "Disconnected"
                /\ client_publisher'.state = "Disconnected"
                /\ UNCHANGED <<alert_id_counter, message_callback>>]_vars

\* the outbound connection was lost with code 7 and warned about, the inbound one
\* ended with code 0 and was not, and the counter and the hook are as they were set
C27_Witness ==
    /\ caplog.on
    /\ caplog.warnings = <<[connection |-> "client", rc |-> 7]>>
    /\ simulator_client.state = "Disconnected" /\ simulator_client.loop
    /\ client_publisher.state = "Disconnected" /\ client_publisher.loop
    /\ alert_id_counter = 1
    /\ message_callback = "process_emergency_event"

-----------------------------------------------------------------------------
(* Claim C31 *)

\* C31: stop() reaches the outbound client only when the inbound loop has ended, no
\* callback is in flight and the inbound client is disconnected; when stop() returns
\* both are down, and until the handler is started again no callback runs and
\* nothing more is published
C31_InboundTornDownBeforeOutbound ==
    [][/\ (StopPubLoopStop \/ StopPubDisconnect) =>
            /\ net.pc = "idle"
            /\ simulator_client = NewClient
       /\ StopPubDisconnect =>
            /\ simulator_client' = NewClient
            /\ client_publisher' = NewClient
            /\ net'.pc = "idle"
       /\ (stopper.pc = "returned" /\ ~simulator_client.loop) =>
            /\ net'.pc = "idle"
            /\ UNCHANGED <<published, built, hook_calls, alert_id_counter>>]_vars

\* stop() began while a callback was in flight, the callback published its Alert,
\* and stop() has returned with both clients down
C31_Witness ==
    /\ stopper.pc = "returned"
    /\ stopper.overlapped
    /\ Len(published) = 1
    /\ net.pc = "idle"
    /\ simulator_client = NewClient
    /\ client_publisher = NewClient

====
